---- MODULE Spec2Model ----
(***************************************************************************)
(* Keyset pagination of try_sql.py: paginate_query (sorting, marker       *)
(* filter, limit), get_marker and get_meters over the meter table.        *)
(*                                                                         *)
(* Encoding.  Python None is the empty tuple and any other value x is the  *)
(* one-element tuple <<x>>, so that None, '' and [] stay distinct.         *)
(* Column values are positive integers ('even' < 'odd', 'id0' < 'id1' ..   *)
(* keep their order); the SQL NULL / Python None column value is 0.        *)
(***************************************************************************)
EXTENDS Integers, Sequences, FiniteSets, TLC

\* ------------------------------------------------------------------ bounds
MaxKeys == 2
MaxVal == 2
MaxLimit == 2
MaxRows == 3

\* ------------------------------------------------------- values and names
None == <<>>
Some(x) == <<x>>

NULL == 0
Values == 1..MaxVal

\* the columns of Meter that the model keeps
Columns == {"id", "counter_name", "resource_id"}
\* names a caller can pass in sort_keys: the columns and one that Meter lacks
KeyNames == Columns \cup {"nokey"}
\* direction strings a caller can pass; "bad" stands for any other string
DirNames == {"asc", "desc", "bad"}

\* the exceptions of paginate_query, named by raising statement
NoError == "ok"
ConflictingDirectionsError == "AssertionError@44"
DirectionCountMismatchError == "AssertionError@54"
UnknownSortDirectionError == "ValueError@64"
UnknownSortKeyError == "InvalidSortKey@69"
MarkerValueMissingError == "AttributeError@76"
NoResultFound == "NoResultFound@189"

Min(a, b) == IF a < b THEN a ELSE b

\* --------------------------------------------------------- paginate_query
\* Python truthiness of sort_dir (a string or None) and sort_dirs (a list or None)
TruthyDir(sort_dir) == sort_dir # None /\ sort_dir[1] # ""
TruthyDirs(sort_dirs) == sort_dirs # None /\ Len(sort_dirs[1]) > 0

\* assert(not (sort_dir and sort_dirs))
ConflictAssertFails(sort_dir, sort_dirs) == TruthyDir(sort_dir) /\ TruthyDirs(sort_dirs)

\* if sort_dirs is None and sort_dir is None: sort_dir = 'asc'
DefaultDir(sort_dir, sort_dirs) ==
    IF sort_dirs = None /\ sort_dir = None THEN Some("asc") ELSE sort_dir

\* if sort_dirs is None: sort_dirs = [sort_dir for _sort_key in sort_keys]
PerColumnDirs(sort_keys, sort_dir, sort_dirs) ==
    IF sort_dirs = None
    THEN [k \in 1..Len(sort_keys) |-> DefaultDir(sort_dir, sort_dirs)[1]]
    ELSE sort_dirs[1]

\* mutant: the length assertion is missing
CountAssertOff(sort_keys, dirs) == FALSE

\* assert(len(sort_dirs) == len(sort_keys))
CountAssertFails(sort_keys, dirs) == Len(dirs) # Len(sort_keys)

\* mutant: each ordering is put in front of the earlier ones
RECURSIVE AddSortingPrepend(_, _, _, _)
AddSortingPrepend(sort_keys, dirs, i, order_by) ==
    IF i > Min(Len(sort_keys), Len(dirs))
    THEN [err |-> NoError, order_by |-> order_by]
    ELSE IF dirs[i] \notin {"asc", "desc"}
    THEN [err |-> UnknownSortDirectionError, order_by |-> order_by]
    ELSE IF sort_keys[i] \notin Columns
    THEN [err |-> UnknownSortKeyError, order_by |-> order_by]
    ELSE AddSortingPrepend(sort_keys, dirs, i + 1, <<<<sort_keys[i], dirs[i]>>>> \o order_by)

\* mutant: the ordering is applied by name before the attribute is resolved
RECURSIVE AddSortingLate(_, _, _, _)
AddSortingLate(sort_keys, dirs, i, order_by) ==
    IF i > Min(Len(sort_keys), Len(dirs))
    THEN [err |-> NoError, order_by |-> order_by]
    ELSE IF dirs[i] \notin {"asc", "desc"}
    THEN [err |-> UnknownSortDirectionError, order_by |-> order_by]
    ELSE IF sort_keys[i] \notin Columns
    THEN [err |-> UnknownSortKeyError,
          order_by |-> Append(order_by, <<sort_keys[i], dirs[i]>>)]
    ELSE AddSortingLate(sort_keys, dirs, i + 1, Append(order_by, <<sort_keys[i], dirs[i]>>))

\* mutant: the attribute is resolved before the direction is looked up
RECURSIVE AddSortingKeyFirst(_, _, _, _)
AddSortingKeyFirst(sort_keys, dirs, i, order_by) ==
    IF i > Min(Len(sort_keys), Len(dirs))
    THEN [err |-> NoError, order_by |-> order_by]
    ELSE IF sort_keys[i] \notin Columns
    THEN [err |-> UnknownSortKeyError, order_by |-> order_by]
    ELSE IF dirs[i] \notin {"asc", "desc"}
    THEN [err |-> UnknownSortDirectionError, order_by |-> order_by]
    ELSE AddSortingKeyFirst(sort_keys, dirs, i + 1, Append(order_by, <<sort_keys[i], dirs[i]>>))

\* the "Add sorting" loop from its i-th iteration on, order_by holding the
\* order_by() calls already made on the query
RECURSIVE AddSorting(_, _, _, _)
AddSorting(sort_keys, dirs, i, order_by) ==
    IF i > Min(Len(sort_keys), Len(dirs))
    THEN [err |-> NoError, order_by |-> order_by]
    ELSE IF dirs[i] \notin {"asc", "desc"}
    THEN [err |-> UnknownSortDirectionError, order_by |-> order_by]
    ELSE IF sort_keys[i] \notin Columns
    THEN [err |-> UnknownSortKeyError, order_by |-> order_by]
    ELSE AddSorting(sort_keys, dirs, i + 1, Append(order_by, <<sort_keys[i], dirs[i]>>))

\* getattr(marker, sort_key) raises when the marker object lacks the attribute
MarkerLacks(sort_keys, m) == \E i \in 1..Len(sort_keys) : sort_keys[i] \notin DOMAIN m

\* marker_values
MarkerValues(sort_keys, m) == [i \in 1..Len(sort_keys) |-> m[sort_keys[i]]]

\* mutant: the direction of the key is ignored
AdvanceIgnoresDir(dir) == ">"

\* the comparison appended last to crit_attrs for key i
Advance(dir) == IF dir = "desc" THEN "<" ELSE ">"

\* mutant: the equalities on the keys before i are left out
CritAttrsNoTies(sort_keys, dirs, mv, i) ==
    <<[op |-> Advance(dirs[i]), col |-> sort_keys[i], val |-> mv[i]]>>

\* crit_attrs of iteration i: equalities on the keys before i, then the inequality
CritAttrs(sort_keys, dirs, mv, i) ==
    [j \in 1..i |->
        IF j < i
        THEN [op |-> "==", col |-> sort_keys[j], val |-> mv[j]]
        ELSE [op |-> Advance(dirs[i]), col |-> sort_keys[i], val |-> mv[i]]]

\* criteria_list: one and_(*crit_attrs) per key; the filter is or_(*criteria_list)
CriteriaList(sort_keys, dirs, mv) ==
    [i \in 1..Len(sort_keys) |-> CritAttrs(sort_keys, dirs, mv, i)]

\* mutant: "if limit:" instead of "if limit is not None:"
LimitArgTruthy(limit) == IF limit # None /\ limit[1] # 0 THEN limit ELSE None

\* if limit is not None: query = query.limit(limit)
LimitArg(limit) == IF limit # None THEN limit ELSE None

\* the whole function: the error raised (or NoError), the order_by() calls made
\* before that point, the filter() argument and the limit() argument if made,
\* and whether the 'Id not in sort_keys' line was logged
paginate_query(limit, sort_keys, marker, sort_dir, sort_dirs) ==
    LET logged == \A i \in 1..Len(sort_keys) : sort_keys[i] # "id"
        raise(e, ob) == [err |-> e, order_by |-> ob, filter |-> None,
                         limit |-> None, logged |-> logged]
        dirs == PerColumnDirs(sort_keys, sort_dir, sort_dirs)
        sorted == AddSorting(sort_keys, dirs, 1, <<>>)
    IN  IF ConflictAssertFails(sort_dir, sort_dirs)
        THEN raise(ConflictingDirectionsError, <<>>)
        ELSE IF CountAssertFails(sort_keys, dirs)
        THEN raise(DirectionCountMismatchError, <<>>)
        ELSE IF sorted.err # NoError
        THEN raise(sorted.err, sorted.order_by)
        ELSE IF marker # None /\ MarkerLacks(sort_keys, marker[1])
        THEN raise(MarkerValueMissingError, sorted.order_by)
        ELSE [err |-> NoError,
              order_by |-> sorted.order_by,
              filter |-> IF marker = None THEN None
                         ELSE Some(CriteriaList(sort_keys, dirs,
                                                MarkerValues(sort_keys, marker[1]))),
              limit |-> LimitArg(limit),
              logged |-> logged]

\* ------------------------------------------------- the store's evaluation
\* SQL three-valued comparison of a row's column with a bound value; SQLAlchemy
\* renders (column == None) as IS NULL
EvalCmp(c, row) ==
    LET x == row[c.col]
    IN  IF c.op = "==" /\ c.val = NULL THEN (IF x = NULL THEN "T" ELSE "F")
        ELSE IF x = NULL \/ c.val = NULL THEN "U"
        ELSE IF c.op = "==" THEN (IF x = c.val THEN "T" ELSE "F")
        ELSE IF c.op = "<" THEN (IF x < c.val THEN "T" ELSE "F")
        ELSE (IF x > c.val THEN "T" ELSE "F")

\* and_(*crit_attrs)
EvalAnd(crit, row) ==
    IF \E j \in 1..Len(crit) : EvalCmp(crit[j], row) = "F" THEN "F"
    ELSE IF \E j \in 1..Len(crit) : EvalCmp(crit[j], row) = "U" THEN "U"
    ELSE "T"

\* or_(*criteria_list)
EvalOr(criteria_list, row) ==
    IF \E i \in 1..Len(criteria_list) : EvalAnd(criteria_list[i], row) = "T" THEN "T"
    ELSE IF \E i \in 1..Len(criteria_list) : EvalAnd(criteria_list[i], row) = "U" THEN "U"
    ELSE "F"

\* query.filter(f) keeps the rows on which f is true
Accepts(filter, row) == filter = None \/ EvalOr(filter[1], row) = "T"

\* ORDER BY: row a sorts strictly before row b under the order_by list
Precedes(order_by, a, b) ==
    \E i \in 1..Len(order_by) :
        /\ \A j \in 1..(i - 1) : a[order_by[j][1]] = b[order_by[j][1]]
        /\ IF order_by[i][2] = "asc"
           THEN a[order_by[i][1]] < b[order_by[i][1]]
           ELSE a[order_by[i][1]] > b[order_by[i][1]]

\* every sequence of the rows S the store may return under ORDER BY: rows
\* that tie on all the order_by columns come in any order
RECURSIVE Orderings(_, _)
Orderings(order_by, S) ==
    IF S = {} THEN {<<>>}
    ELSE UNION {{<<m>> \o s : s \in Orderings(order_by, S \ {m})} :
                m \in {x \in S : \A y \in S : ~Precedes(order_by, y, x)}}

\* LIMIT n
Take(s, lim) == IF lim = None THEN s ELSE SubSeq(s, 1, Min(lim[1], Len(s)))

\* query.all(): the results the store may return for the built query over rows
Execute(q, rows) ==
    {Take(s, q.limit) : s \in Orderings(q.order_by, {r \in rows : Accepts(q.filter, r)})}

\* -------------------------------------------------------------- get_meters
\* prepare_data names every meter 'even' or 'odd'
CounterNames == {1, 2}
\* the ids of the resource table, two of them here; every meter of
\* prepare_data refers to one of them
Resource == {1, 2}

SameGroup(x, y) == x.resource_id = y.resource_id /\ x.counter_name = y.counter_name

\* subquery_meter: max(id) per (resource_id, counter_name)
SubqueryMeter(table) == {x.id : x \in {m \in table : \A y \in table : SameGroup(m, y) => y.id <= m.id}}

\* query_meter / alias_meter: the meters whose id the subquery selects
AliasMeter(table) == {m \in table : m.id \in SubqueryMeter(table)}

\* session.query(alias_meter, Resource).join(Resource, ...)
Joined(table) == {m \in AliasMeter(table) : m.resource_id \in Resource}

\* get_marker: the rows matching both filters; limit(1).one() returns the
\* single one or raises NoResultFound
MarkerMatches(table, counter_name, resource_id) ==
    {m \in AliasMeter(table) : m.counter_name = counter_name /\ m.resource_id = resource_id}

\* mutant: the two filters are missing, limit(1).one() takes the first row
get_marker_unfiltered(table, counter_name, resource_id) ==
    IF AliasMeter(table) = {} THEN [err |-> NoResultFound, marker |-> None]
    ELSE [err |-> NoError,
          marker |-> Some(CHOOSE m \in AliasMeter(table) :
                              \A y \in AliasMeter(table) : m.id <= y.id)]

get_marker(table, counter_name, resource_id) ==
    LET found == MarkerMatches(table, counter_name, resource_id)
    IN  IF found = {} THEN [err |-> NoResultFound, marker |-> None]
        ELSE [err |-> NoError, marker |-> Some(CHOOSE m \in found : TRUE)]

\* ------------------------------------------------------------- variables
VARIABLES
    sort_keys,   \* paginate_query argument
    sort_dir,    \* paginate_query argument: None or Some(string)
    sort_dirs,   \* paginate_query argument: None or Some(list of strings)
    limit,       \* paginate_query / get_meters argument: None or Some(n)
    marker,      \* paginate_query argument: None or Some(marker object)
    result,      \* what the last paginate_query call built or raised
    pc,          \* where the caller is
    meter,       \* the rows of the meter table
    gone,        \* the rows deleted from the meter table so far
    cursor,      \* the (counter_name, resource_id) the next get_meters is given
    pages,       \* the pages get_meters has returned, in order
    stable       \* the result rows present ever since the first page was asked

vars == <<sort_keys, sort_dir, sort_dirs, limit, marker, result, pc,
          meter, gone, cursor, pages, stable>>
callArgs == <<sort_keys, sort_dir, sort_dirs, limit>>

NoResult == [err |-> NoError, order_by |-> <<>>, filter |-> None,
             limit |-> None, logged |-> FALSE]

\* ---------------------------------------------- one call of paginate_query
SeqsUpTo(S, lo, hi) == UNION {[1..n -> S] : n \in lo..hi}

ShortDirs == {None, Some(""), Some("asc"), Some("desc"), Some("bad")}
DirLists == {None} \cup {Some(d) : d \in SeqsUpTo(DirNames, 0, MaxKeys)}
Limits == {None} \cup {Some(n) : n \in 0..MaxLimit}

\* marker objects, by the attributes the call can read: each sort key that is
\* a column is missing, None, or a value
Range(s) == {s[i] : i \in 1..Len(s)}
MarkersFor(keys) ==
    {None} \cup {Some(m) : m \in UNION {[S -> {NULL} \cup Values] :
                                        S \in SUBSET (Range(keys) \cap Columns)}}

InitCall ==
    /\ sort_keys \in SeqsUpTo(KeyNames, 1, MaxKeys)
    /\ sort_dir \in ShortDirs
    /\ sort_dirs \in DirLists
    /\ limit \in Limits
    /\ marker \in MarkersFor(sort_keys)
    /\ result = NoResult
    /\ pc = "call"
    /\ meter = {}
    /\ gone = {}
    /\ cursor = None
    /\ pages = <<>>
    /\ stable = {}

Call ==
    /\ pc = "call"
    /\ result' = paginate_query(limit, sort_keys, marker, sort_dir, sort_dirs)
    /\ pc' = IF result'.err = NoError THEN "returned" ELSE "raised"
    /\ UNCHANGED <<callArgs, marker, meter, gone, cursor, pages, stable>>

NextCall == Call

SpecCall == InitCall /\ [][NextCall]_vars

\* ------------------------------------------------- paging with get_meters
\* a meter table of n rows, ids 1..n as the autoincrement assigns them
TableOf(f) == {[id |-> i, counter_name |-> f[i][1], resource_id |-> f[i][2]] : i \in DOMAIN f}
Tables == {TableOf(f) : f \in SeqsUpTo(CounterNames \X Resource, 0, MaxRows)}

\* sort specifications paginate_query accepts: distinct columns, each with its
\* own direction
Distinct(s) == \A i, j \in 1..Len(s) : i # j => s[i] # s[j]
ValidKeys == {k \in SeqsUpTo(Columns, 1, MaxKeys) : Distinct(k)}

Last(s) == s[Len(s)]

\* get_meters(counter_name, resource_id, limit) with the sort specification as
\* a parameter; the caller passes the last row of the page it got as the
\* counter_name and resource_id of its next call, as __main__ does, and stops
\* at an empty page
GetMeters ==
    /\ pc = "paging"
    /\ LET found == IF cursor # None
                    THEN get_marker(meter, cursor[1][1], cursor[1][2])
                    ELSE [err |-> NoError, marker |-> None]
           q == paginate_query(limit, sort_keys, found.marker, sort_dir, sort_dirs)
       IN  IF found.err # NoError
           THEN /\ pc' = "failed"
                /\ result' = [NoResult EXCEPT !.err = found.err]
                /\ UNCHANGED <<marker, cursor, pages, stable>>
           ELSE /\ marker' = found.marker
                /\ result' = q
                /\ IF q.err # NoError
                   THEN /\ pc' = "failed"
                        /\ UNCHANGED <<cursor, pages, stable>>
                   ELSE \E page \in Execute(q, Joined(meter)) :
                           /\ pages' = Append(pages, page)
                           /\ cursor' = IF page = <<>> THEN cursor
                                        ELSE Some(<<Last(page).counter_name,
                                                    Last(page).resource_id>>)
                           /\ pc' = IF page = <<>> THEN "done" ELSE "paging"
                           /\ stable' = IF pages = <<>> THEN {r.id : r \in Joined(meter)}
                                        ELSE stable
    /\ UNCHANGED <<callArgs, meter, gone>>

InitKeyset ==
    /\ sort_keys \in ValidKeys
    /\ sort_dir = None
    /\ sort_dirs \in {Some(d) : d \in [1..Len(sort_keys) -> {"asc", "desc"}]}
    /\ limit \in Limits
    /\ marker = None
    /\ result = NoResult
    /\ pc = "paging"
    /\ meter \in Tables
    /\ gone = {}
    /\ cursor = None
    /\ pages = <<>>
    /\ stable = {}

NextKeyset == GetMeters

SpecKeyset == InitKeyset /\ [][NextKeyset]_vars

\* ================================================== properties of one call
Called == pc \in {"returned", "raised"}
NKeys == Len(sort_keys)

\* the direction the caller asked for key i: its entry of the per-key list when
\* a list is given, else the shared direction, else ascending
DirAsked(i) ==
    IF sort_dirs # None THEN sort_dirs[1][i]
    ELSE IF sort_dir # None THEN sort_dir[1]
    ELSE "asc"

\* strict order on column values; NULL is neither before nor after anything
StrictlyAfter(x, m, dir) ==
    /\ x # NULL
    /\ m # NULL
    /\ IF dir = "asc" THEN x > m ELSE x < m

\* rows, by the columns the sort keys name
KeyRows == [Range(sort_keys) -> {NULL} \cup Values]

\* term i of the lexicographic predicate, stated directly on row and marker
AdvancesAt(row, i) ==
    /\ \A j \in 1..(i - 1) : row[sort_keys[j]] = marker[1][sort_keys[j]]
    /\ StrictlyAfter(row[sort_keys[i]], marker[1][sort_keys[i]], DirAsked(i))

\* C2: the filter built from a marker accepts a row exactly when, for some i,
\* the row ties with the marker on the keys before i and strictly advances on
\* key i in that key's direction; with one key it is the single inequality; for
\* [counter_name desc, resource_id desc] it is
\* (counter_name < m1) OR (counter_name == m1 AND resource_id < m2).
C2_FilterIsLexicographic ==
    (pc = "returned" /\ marker # None) =>
        /\ \A row \in KeyRows :
              Accepts(result.filter, row) <=> \E i \in 1..NKeys : AdvancesAt(row, i)
        /\ NKeys = 1 =>
              \A row \in KeyRows :
                  Accepts(result.filter, row) <=>
                      StrictlyAfter(row[sort_keys[1]], marker[1][sort_keys[1]], DirAsked(1))
        /\ (sort_keys = <<"counter_name", "resource_id">>
               /\ DirAsked(1) = "desc" /\ DirAsked(2) = "desc") =>
              result.filter[1] =
                  << <<[op |-> "<", col |-> "counter_name", val |-> marker[1]["counter_name"]]>>,
                     <<[op |-> "==", col |-> "counter_name", val |-> marker[1]["counter_name"]],
                       [op |-> "<", col |-> "resource_id", val |-> marker[1]["resource_id"]]>> >>

\* a two-key descending call whose filter accepts a row through its second term
C2_Witness ==
    /\ pc = "returned"
    /\ sort_keys = <<"counter_name", "resource_id">>
    /\ sort_dir = Some("desc")
    /\ marker = Some([counter_name |-> 2, resource_id |-> 2])
    /\ Accepts(result.filter, [counter_name |-> 2, resource_id |-> 1])
    /\ ~Accepts(result.filter, [counter_name |-> 2, resource_id |-> 2])

\* C5 as claimed, in its weakest reading: a call given both a shared direction
\* and a per-key list, whatever their values, fails and returns no query.
C5_BothGivenAlwaysFails ==
    (Called /\ sort_dir # None /\ sort_dirs # None) => pc = "raised"

\* C6 as claimed: a per-key list whose length differs from the key list's
\* always fails with the direction-count-mismatch error.
C6_MismatchAlwaysCountError ==
    (Called /\ sort_dirs # None /\ Len(sort_dirs[1]) # NKeys) =>
        (pc = "raised" /\ result.err = DirectionCountMismatchError)

\* C6 amended: a per-key list of another length than the key list always fails
\* the call, with the count-mismatch error unless a non-empty shared direction
\* comes with a non-empty list, which fails the earlier conflict check instead;
\* without a per-key list the count error never occurs and a returned query
\* carries one ordering per key.
C6_MismatchFailsAfterConflictCheck ==
    /\ (Called /\ sort_dirs # None /\ Len(sort_dirs[1]) # NKeys) =>
          /\ pc = "raised"
          /\ result.err =
                IF sort_dir \notin {None, Some("")} /\ sort_dirs[1] # <<>>
                THEN ConflictingDirectionsError
                ELSE DirectionCountMismatchError
    /\ (Called /\ sort_dirs = None) =>
          /\ result.err # DirectionCountMismatchError
          /\ pc = "returned" => Len(result.order_by) = NKeys

\* one direction against two keys, no shared direction: the count error
C6_Witness ==
    /\ pc = "raised"
    /\ NKeys = 2
    /\ sort_dir = None
    /\ sort_dirs = Some(<<"asc">>)
    /\ result.err = DirectionCountMismatchError

\* a sort key whose marker value is missing or None
MarkerIncomplete ==
    /\ marker # None
    /\ \E i \in 1..NKeys :
          \/ sort_keys[i] \notin DOMAIN marker[1]
          \/ marker[1][sort_keys[i]] = NULL

\* the checks that run before the marker is read
EarlierErrors ==
    {ConflictingDirectionsError, DirectionCountMismatchError,
     UnknownSortDirectionError, UnknownSortKeyError}

C8_NoMarkerNoFilter ==
    (pc = "returned" /\ marker = None) =>
        /\ result.filter = None
        /\ \A row \in KeyRows : Accepts(result.filter, row)
        /\ result.order_by = [i \in 1..NKeys |-> <<sort_keys[i], DirAsked(i)>>]

\* a first page on two keys with different directions
C8_Witness ==
    /\ pc = "returned"
    /\ marker = None
    /\ sort_keys = <<"counter_name", "resource_id">>
    /\ sort_dirs = Some(<<"asc", "desc">>)
    /\ result.order_by = << <<"counter_name", "asc">>, <<"resource_id", "desc">> >>

\* C9 as claimed, for the four errors the sort arguments can cause: when a call
\* raises, no order_by, filter or limit has been applied to the query before
\* the error.
C9_NothingAppliedBeforeError ==
    (pc = "raised" /\ result.err \in EarlierErrors) =>
        (result.order_by = <<>> /\ result.filter = None /\ result.limit = None)

\* the first position whose key or direction the sorting loop rejects
FirstRejected(i) ==
    /\ i \in 1..NKeys
    /\ (DirAsked(i) \notin {"asc", "desc"} \/ sort_keys[i] \notin Columns)
    /\ \A j \in 1..(i - 1) : DirAsked(j) \in {"asc", "desc"} /\ sort_keys[j] \in Columns

\* C9 amended: when a call raises, no filter and no limit has been applied and
\* nothing is returned; the two direction-argument errors precede every
\* order_by; an unknown direction or key at position i is raised after exactly
\* the order_by calls of the i-1 keys before it; a missing marker attribute is
\* raised after all the order_by calls.
C9_ErrorsPrecedeFilterAndLimit ==
    pc = "raised" =>
        /\ result.filter = None
        /\ result.limit = None
        /\ result.err \in {ConflictingDirectionsError, DirectionCountMismatchError} =>
              result.order_by = <<>>
        /\ result.err \in {UnknownSortDirectionError, UnknownSortKeyError} =>
              \E i \in 1..NKeys :
                  /\ FirstRejected(i)
                  /\ result.order_by = [j \in 1..(i - 1) |-> <<sort_keys[j], DirAsked(j)>>]
        /\ result.err = MarkerValueMissingError =>
              result.order_by = [j \in 1..NKeys |-> <<sort_keys[j], DirAsked(j)>>]

\* an unknown second key is raised after the first key's order_by
C9_Witness ==
    /\ pc = "raised"
    /\ sort_keys = <<"counter_name", "nokey">>
    /\ result.err = UnknownSortKeyError
    /\ result.order_by = << <<"counter_name", "asc">> >>

\* a direction in effect is not 'asc' or 'desc': an entry of the per-key list
\* when a list is given, else the shared direction
BadDirInEffect ==
    \E i \in 1..(IF sort_dirs # None THEN Len(sort_dirs[1]) ELSE NKeys) :
        DirAsked(i) \notin {"asc", "desc"}

\* C10 as claimed, for the calls that pass the two checks on the direction
\* arguments: a bad direction in effect fails the call with the
\* unknown-sort-direction error, wherever it stands and whatever the keys are.
C10_BadDirAlwaysDirError ==
    (Called /\ BadDirInEffect
        /\ result.err \notin {ConflictingDirectionsError, DirectionCountMismatchError}) =>
        (pc = "raised" /\ result.err = UnknownSortDirectionError)

\* C10 amended: a call with a bad direction in effect always fails; it fails
\* with the unknown-sort-direction error when the conflict and count checks
\* pass and every key before the first bad direction is a column, and with the
\* error of that earlier check otherwise.  With neither a shared direction nor
\* a per-key list every key is sorted ascending and the error does not occur.
C10_BadDirFailsInCheckOrder ==
    /\ (Called /\ BadDirInEffect) =>
          /\ pc = "raised"
          /\ result.err =
                IF sort_dir \notin {None, Some("")} /\ sort_dirs \notin {None, Some(<<>>)}
                THEN ConflictingDirectionsError
                ELSE IF sort_dirs # None /\ Len(sort_dirs[1]) # NKeys
                THEN DirectionCountMismatchError
                ELSE IF \E i \in 1..NKeys :
                           /\ DirAsked(i) \notin {"asc", "desc"}
                           /\ \A j \in 1..(i - 1) :
                                 DirAsked(j) \in {"asc", "desc"} /\ sort_keys[j] \in Columns
                THEN UnknownSortDirectionError
                ELSE UnknownSortKeyError
    /\ (Called /\ sort_dir = None /\ sort_dirs = None) =>
          /\ result.err # UnknownSortDirectionError
          /\ \A i \in 1..Len(result.order_by) : result.order_by[i] = <<sort_keys[i], "asc">>

\* a bad direction in second position, behind a valid key and direction
C10_Witness ==
    /\ pc = "raised"
    /\ sort_keys = <<"counter_name", "resource_id">>
    /\ sort_dirs = Some(<<"desc", "bad">>)
    /\ sort_dir = None
    /\ result.err = UnknownSortDirectionError

\* ------------------------------------- paging while the table is written to
\* counter names for tables whose counter_name is unique per row
UniqueNames == 1..MaxRows

Max(S) == CHOOSE x \in S : \A y \in S : y <= x
\* the id the autoincrement primary key gives the next meter
NextId == IF meter \cup gone = {} THEN 1 ELSE 1 + Max({m.id : m \in meter \cup gone})

\* a result row stays stable while it is in the result set
StillStable(table) == IF pages = <<>> THEN stable
                      ELSE stable \cap {r.id : r \in Joined(table)}

\* session.add(meter); session.commit() by a writer, with a counter_name no
\* row has had
Insert(counter_name, resource_id) ==
    /\ pc = "paging"
    /\ NextId <= MaxRows
    /\ \A m \in meter \cup gone : m.counter_name # counter_name
    /\ meter' = meter \cup {[id |-> NextId, counter_name |-> counter_name,
                             resource_id |-> resource_id]}
    /\ stable' = StillStable(meter')
    /\ UNCHANGED <<callArgs, marker, result, pc, gone, cursor, pages>>

\* a writer deletes a meter
Delete(m) ==
    /\ pc = "paging"
    /\ m \in meter
    /\ meter' = meter \ {m}
    /\ gone' = gone \cup {m}
    /\ stable' = StillStable(meter')
    /\ UNCHANGED <<callArgs, marker, result, pc, cursor, pages>>

\* get_meters as written: paginate_query(query, alias_meter, limit,
\* ['counter_name', 'resource_id'], marker, sort_dir='desc')
InitWrites ==
    /\ sort_keys = <<"counter_name", "resource_id">>
    /\ sort_dir = Some("desc")
    /\ sort_dirs = None
    /\ limit \in {Some(n) : n \in 1..MaxLimit}
    /\ marker = None
    /\ result = NoResult
    /\ pc = "paging"
    /\ meter = {}
    /\ gone = {}
    /\ cursor = None
    /\ pages = <<>>
    /\ stable = {}

NextWrites ==
    \/ GetMeters
    \/ \E c \in UniqueNames, r \in Resource : Insert(c, r)
    \/ \E m \in meter : Delete(m)

SpecWrites == InitWrites /\ [][NextWrites]_vars

\* ================================================ properties of paging runs
RECURSIVE Concat(_)
Concat(ps) == IF ps = <<>> THEN <<>> ELSE ps[1] \o Concat(Tail(ps))

\* row a comes strictly before row b in the order the caller asked for
ComesBefore(a, b) ==
    \E i \in 1..NKeys :
        /\ \A j \in 1..(i - 1) : a[sort_keys[j]] = b[sort_keys[j]]
        /\ StrictlyAfter(b[sort_keys[i]], a[sort_keys[i]], DirAsked(i))

\* s lists every row of the result set once, in the order asked for
IsFullSortedResult(s) ==
    /\ Range(s) = Joined(meter)
    /\ Len(s) = Cardinality(Joined(meter))
    /\ \A i, j \in 1..Len(s) : i < j => ~ComesBefore(s[j], s[i])

\* no two rows of the result set agree on every sort key
KeysIdentifyRows ==
    \A a, b \in Joined(meter) : a # b => \E i \in 1..NKeys : a[sort_keys[i]] # b[sort_keys[i]]

C4_LimitZeroGivesEmptyPage ==
    pages # <<>> =>
        /\ limit = Some(0) => \A k \in 1..Len(pages) : pages[k] = <<>>
        /\ limit # None =>
              /\ result.limit = limit
              /\ \A k \in 1..Len(pages) : Len(pages[k]) <= limit[1]
        /\ limit = None =>
              /\ result.limit = None
              /\ Len(pages[1]) = Cardinality(Joined(meter))

\* a request for zero rows over a non-empty result set
C4_Witness ==
    /\ limit = Some(0)
    /\ pc = "done"
    /\ pages = << <<>> >>
    /\ Cardinality(Joined(meter)) >= 2

\* the rows returned by the pages after page k
ReturnedAfter(k) == UNION {Range(pages[k2]) : k2 \in (k + 1)..Len(pages)}

\* no row is on two pages, by id and by (counter_name, resource_id)
NoRowTwice ==
    \A i, j \in 1..Len(Concat(pages)) :
        i # j => /\ Concat(pages)[i].id # Concat(pages)[j].id
                 /\ ~SameGroup(Concat(pages)[i], Concat(pages)[j])

\* every stable row that sorts after the marker a page left is on a later page
StableRowsAfterMarkersReturned ==
    \A r \in {x \in meter : x.id \in stable} :
        \A k \in 1..Len(pages) :
            (pages[k] # <<>> /\ ComesBefore(Last(pages[k]), r)) => r \in ReturnedAfter(k)

====
